---- MODULE Spec2Model ----
(***************************************************************************)
(* A model of cbase2influxdb.py: one invocation of main(), from the parsed *)
(* command line to the process exit.  The input of the invocation (the     *)
(* command line) is the initial state; what the environment hands to the   *)
(* program (file contents, the HTTP response, the outcome of the database  *)
(* write) is chosen when the program asks for it.                          *)
(*                                                                         *)
(* Text is a sequence of one-character strings, so that the conversions    *)
(* (float(), the datetime parser) are computed from the characters.  A CSV *)
(* text is taken after the CSV tokenizer: a sequence of lines, each line a *)
(* sequence of cells, the blank line being the empty sequence.             *)
(***************************************************************************)
EXTENDS Integers, Sequences, FiniteSets, TLC

\* The largest number of lines after the header in a CSV text.
MaxRows == 2

(***************************************************************************)
(* Python values                                                           *)
(***************************************************************************)
None == [t |-> "none"]

Str(s) == [t |-> "str", s |-> s]

List(v) == [t |-> "list", v |-> v]

ValueError(what) == [t |-> "error", what |-> what]

IsError(v) == v.t = "error"

Range(f) == {f[i] : i \in DOMAIN f}

Digits == {"0", "1", "2", "3", "4", "5", "6", "7", "8", "9"}

DigitVal(c) ==
  CASE c = "0" -> 0 [] c = "1" -> 1 [] c = "2" -> 2 [] c = "3" -> 3
    [] c = "4" -> 4 [] c = "5" -> 5 [] c = "6" -> 6 [] c = "7" -> 7
    [] c = "8" -> 8 [] c = "9" -> 9

RECURSIVE DigitsVal(_)
DigitsVal(s) ==
  IF s = <<>> THEN 0
  ELSE DigitsVal(SubSeq(s, 1, Len(s) - 1)) * 10 + DigitVal(s[Len(s)])

RECURSIVE Pow10(_)
Pow10(k) == IF k = 0 THEN 1 ELSE 10 * Pow10(k - 1)

RECURSIVE Normalize(_, _)
Normalize(num, den) ==
  IF den > 1 /\ num % 10 = 0 THEN Normalize(num \div 10, den \div 10)
  ELSE [t |-> "float", num |-> num, den |-> den]

\* float(text) on decimal numerals: [sign] digits [. digits], at least one
\* digit; the value is the fraction num/den in lowest decimal form.
StrToFloat(s) ==
  LET signed == Len(s) > 0 /\ s[1] \in {"-", "+"}
      body   == IF signed THEN Tail(s) ELSE s
      dots   == {i \in 1..Len(body) : body[i] = "."}
      dot    == IF dots = {} THEN Len(body) + 1 ELSE CHOOSE i \in dots : TRUE
      whole  == SubSeq(body, 1, dot - 1)
      frac   == SubSeq(body, dot + 1, Len(body))
      ok     == /\ Cardinality(dots) <= 1
                /\ \A i \in 1..Len(body) : body[i] \in Digits \cup {"."}
                /\ Len(whole) + Len(frac) > 0
      mag    == DigitsVal(whole \o frac)
  IN  IF ~ok THEN ValueError("float")
      ELSE Normalize(IF signed /\ s[1] = "-" THEN 0 - mag ELSE mag, Pow10(Len(frac)))

DaysIn(year, month) ==
  IF month \in {4, 6, 9, 11} THEN 30
  ELSE IF month # 2 THEN 31
  ELSE IF year % 4 = 0 /\ (year % 100 # 0 \/ year % 400 = 0) THEN 29 ELSE 28

\* The datetime parser on YYYY-MM-DD(T| )HH:MM[:SS].
StrToDatetime(s) ==
  LET n      == Len(s)
      digAt  == {1, 2, 3, 4, 6, 7, 9, 10, 12, 13, 15, 16} \cup (IF n = 19 THEN {18, 19} ELSE {})
      shape  == /\ n \in {16, 19}
                /\ \A i \in digAt : s[i] \in Digits
                /\ s[5] = "-" /\ s[8] = "-" /\ s[11] \in {"T", " "} /\ s[14] = ":"
                /\ (n = 19 => s[17] = ":")
      year   == DigitsVal(SubSeq(s, 1, 4))
      month  == DigitsVal(SubSeq(s, 6, 7))
      day    == DigitsVal(SubSeq(s, 9, 10))
      hour   == DigitsVal(SubSeq(s, 12, 13))
      minute == DigitsVal(SubSeq(s, 15, 16))
      second == IF n = 19 THEN DigitsVal(SubSeq(s, 18, 19)) ELSE 0
  IN  IF ~shape THEN ValueError("datetime")
      ELSE IF ~(/\ month \in 1..12 /\ day >= 1 /\ day <= DaysIn(year, month)
                /\ hour <= 23 /\ minute <= 59 /\ second <= 59)
      THEN ValueError("datetime")
      ELSE [t |-> "datetime", year |-> year, month |-> month, day |-> day,
            hour |-> hour, minute |-> minute, second |-> second]

(***************************************************************************)
(* The CSV payload: csv.DictReader, CBaseResponseData, InfluxDBPoint       *)
(***************************************************************************)
Ok(v) == [t |-> "ok", v |-> v]

\* The fields of CBaseResponseData, in declaration order.
Fields ==
  <<"Time_UTC", "temp_avg", "wind_avg", "cl_tot", "cl_low", "cl_med", "cl_high",
    "prec_amt", "s_glob", "s_dif", "s_dir_hor", "s_dir", "s_sw_net",
    "solar_angle_vs_panel", "albedo", "s_glob_pv", "s_ground_dif_pv", "s_dir_pv",
    "s_dif_pv", "pv_po", "pv_T", "pv_eta">>

NullableFields == {"pv_T", "pv_eta"}

\* Field(alias="Time.UTC"): the key under which the constructor looks the field up.
Alias(f) == IF f = "Time_UTC" THEN "Time.UTC" ELSE f

\* The key csv.DictReader files surplus cells under (restkey, Python's None).
RESTKEY == "<restkey>"

\* dict(zip(fieldnames, row)), from column i on: a later column of the same
\* name overrides an earlier one, and the shorter of the two ends it.
RECURSIVE Zip(_, _, _)
Zip(fieldnames, row, i) ==
  IF i > Len(fieldnames) \/ i > Len(row) THEN <<>>
  ELSE Zip(fieldnames, row, i + 1) @@ (fieldnames[i] :> Str(row[i]))

\* One row of csv.DictReader: the cells zipped with the field names, the
\* surplus cells under restkey, the missing cells None (restval).
DictRow(fieldnames, row) ==
  LET d    == Zip(fieldnames, row, 1)
      rest == IF Len(row) > Len(fieldnames)
              THEN d @@ (RESTKEY :> List(SubSeq(row, Len(fieldnames) + 1, Len(row))))
              ELSE d
  IN  rest @@ [k \in {fieldnames[i] : i \in (Len(row) + 1)..Len(fieldnames)} |-> None]

\* The field names csv.DictReader takes: the first line, blank or not.
Fieldnames(lines) == IF lines = <<>> THEN <<>> ELSE lines[1]

\* DictReader.__next__ skips blank lines: the index of the next line at or
\* after i that holds cells, Len(lines) + 1 when there is none.
RECURSIVE NextDataLine(_, _)
NextDataLine(lines, i) ==
  IF i > Len(lines) THEN Len(lines) + 1
  ELSE IF lines[i] # <<>> THEN i
  ELSE NextDataLine(lines, i + 1)

\* The "before" validator of pv_T and pv_eta.
parse_na(value) ==
  IF value = Str(<<"N", "A">>) THEN None
  ELSE IF value = None THEN ValueError("TypeError")
  ELSE StrToFloat(value.s)

ValidateField(f, row) ==
  IF Alias(f) \notin DOMAIN row THEN ValueError("missing")
  ELSE LET raw == row[Alias(f)]
       IN  IF f \in NullableFields THEN parse_na(raw)
           ELSE IF raw = None THEN ValueError("type")
           ELSE IF f = "Time_UTC" THEN StrToDatetime(raw.s)
           ELSE StrToFloat(raw.s)

\* The fields of CBaseResponseData, each validated from the row.
ValidatedFields(row) ==
  [Time_UTC             |-> ValidateField("Time_UTC", row),
   temp_avg             |-> ValidateField("temp_avg", row),
   wind_avg             |-> ValidateField("wind_avg", row),
   cl_tot               |-> ValidateField("cl_tot", row),
   cl_low               |-> ValidateField("cl_low", row),
   cl_med               |-> ValidateField("cl_med", row),
   cl_high              |-> ValidateField("cl_high", row),
   prec_amt             |-> ValidateField("prec_amt", row),
   s_glob               |-> ValidateField("s_glob", row),
   s_dif                |-> ValidateField("s_dif", row),
   s_dir_hor            |-> ValidateField("s_dir_hor", row),
   s_dir                |-> ValidateField("s_dir", row),
   s_sw_net             |-> ValidateField("s_sw_net", row),
   solar_angle_vs_panel |-> ValidateField("solar_angle_vs_panel", row),
   albedo               |-> ValidateField("albedo", row),
   s_glob_pv            |-> ValidateField("s_glob_pv", row),
   s_ground_dif_pv      |-> ValidateField("s_ground_dif_pv", row),
   s_dir_pv             |-> ValidateField("s_dir_pv", row),
   s_dif_pv             |-> ValidateField("s_dif_pv", row),
   pv_po                |-> ValidateField("pv_po", row),
   pv_T                 |-> ValidateField("pv_T", row),
   pv_eta               |-> ValidateField("pv_eta", row)]

\* CBaseResponseData(**row): the validated record, or the error raised.
CBaseResponseData(row) ==
  IF RESTKEY \in DOMAIN row THEN ValueError("TypeError")
  ELSE LET rec == ValidatedFields(row)
       IN  IF \E f \in DOMAIN rec : IsError(rec[f])
           THEN ValueError("ValidationError")
           ELSE Ok(rec)

\* data.model_dump(exclude=...)
ModelDump(data, exclude) == [k \in (DOMAIN data) \ exclude |-> data[k]]

\* PointFields with the "if v is not None" filter left out.
PointFieldsKeepingNone(data) == ModelDump(data, {"Time_UTC"})

\* {k: v for k, v in data.model_dump(exclude={"Time_UTC"}).items() if v is not None}
PointFields(data) ==
  LET d == ModelDump(data, {"Time_UTC"})
  IN  [k \in {x \in DOMAIN d : d[x] # None} |-> d[k]]

InfluxDBPoint(data) ==
  [measurement |-> "cbase",
   tags        |-> [system |-> "home"],
   fields      |-> PointFields(data),
   time        |-> data["Time_UTC"]]

\* PointsOf building the points from the last record to the first.
PointsOfReversed(weather_data_list) ==
  [i \in 1..Len(weather_data_list) |->
     InfluxDBPoint(weather_data_list[Len(weather_data_list) + 1 - i])]

\* The list comprehension of csv_to_influxdb_points over the parsed records.
PointsOf(weather_data_list) ==
  [i \in 1..Len(weather_data_list) |-> InfluxDBPoint(weather_data_list[i])]

(***************************************************************************)
(* The configuration: the document yaml.safe_load returns, and AppConfig   *)
(***************************************************************************)
HasKey(d, k) == k \in DOMAIN d

\* Field(ge=lo, le=hi) on a required field.
InRange(d, k, lo, hi) == HasKey(d, k) /\ d[k] >= lo /\ d[k] <= hi

\* Field(default=..., ge=lo, le=hi): the bounds apply to a value that is given.
InRangeOrDefault(d, k, lo, hi) == HasKey(d, k) => (d[k] >= lo /\ d[k] <= hi)

GetOr(d, k, default) == IF HasKey(d, k) THEN d[k] ELSE default

\* CBaseSystemParamsValid with the upper bound of latitude left out.
CBaseSystemParamsValidNoLatitudeMax(d) ==
  /\ HasKey(d, "latitude") /\ d["latitude"] >= -90
  /\ InRange(d, "longitude", -90, 90)
  /\ InRange(d, "slope", 0, 90)
  /\ InRange(d, "azimuth", 0, 359)
  /\ InRangeOrDefault(d, "tracking", 0, 3)
  /\ InRange(d, "panel_output", 0, 1000)
  /\ InRange(d, "panel_quantity", 0, 1000)
  /\ InRangeOrDefault(d, "inverter_capacity", 0, 100000)

CBaseSystemParamsValid(d) ==
  /\ InRange(d, "latitude", -90, 90)
  /\ InRange(d, "longitude", -90, 90)
  /\ InRange(d, "slope", 0, 90)
  /\ InRange(d, "azimuth", 0, 359)
  /\ InRangeOrDefault(d, "tracking", 0, 3)
  /\ InRange(d, "panel_output", 0, 1000)
  /\ InRange(d, "panel_quantity", 0, 1000)
  /\ InRangeOrDefault(d, "inverter_capacity", 0, 100000)

CBaseSystemParams(d) ==
  [latitude          |-> d["latitude"],
   longitude         |-> d["longitude"],
   slope             |-> d["slope"],
   azimuth           |-> d["azimuth"],
   tracking          |-> GetOr(d, "tracking", 0),
   panel_output      |-> d["panel_output"],
   panel_quantity    |-> d["panel_quantity"],
   inverter_capacity |-> GetOr(d, "inverter_capacity", 0)]

CBaseConfigValid(d) ==
  /\ HasKey(d, "api_host")
  /\ HasKey(d, "system")
  /\ CBaseSystemParamsValid(d["system"])

CBaseConfig(d) == [api_host |-> d["api_host"], system |-> CBaseSystemParams(d["system"])]

\* host and retention_policy carry no default: both keys are required (the
\* value of retention_policy may be None); port and database have defaults.
InfluxDBConfigValid(d) == HasKey(d, "host") /\ HasKey(d, "retention_policy")

InfluxDBConfig(d) ==
  [host             |-> d["host"],
   port             |-> GetOr(d, "port", 8086),
   database         |-> GetOr(d, "database", "cbase"),
   retention_policy |-> d["retention_policy"]]

AppConfigValid(doc) ==
  /\ HasKey(doc, "influxdb")
  /\ HasKey(doc, "cbase")
  /\ InfluxDBConfigValid(doc["influxdb"])
  /\ CBaseConfigValid(doc["cbase"])

AppConfig(doc) ==
  [influxdb |-> InfluxDBConfig(doc["influxdb"]), cbase |-> CBaseConfig(doc["cbase"])]

\* cbase_config.system.model_dump(by_alias=True), plus the API key.
RequestParams(system) ==
  [lat       |-> system.latitude,
   lon       |-> system.longitude,
   slope     |-> system.slope,
   azi       |-> system.azimuth,
   tracking  |-> system.tracking,
   panel_out |-> system.panel_output,
   panel_qty |-> system.panel_quantity,
   inv_cap   |-> system.inverter_capacity,
   apikey    |-> "API_KEY"]

\* API_URL.format(host=...)
ApiUrl(host) == <<"https://", host, "/api/pvfcst_request">>

\* The truth value of an Optional[str]: None and "" are false.
Truthy(v) == v # None /\ v.s # ""

(***************************************************************************)
(* The inputs the model draws from                                         *)
(***************************************************************************)
Drop(d, k) == [x \in (DOMAIN d) \ {k} |-> d[x]]

Put(d, k, v) == [x \in (DOMAIN d) \cup {k} |-> IF x = k THEN v ELSE d[x]]

BaseSystem ==
  ("latitude" :> 60) @@ ("longitude" :> 25) @@ ("slope" :> 30) @@ ("azimuth" :> 180)
    @@ ("panel_output" :> 300) @@ ("panel_quantity" :> 10)

BaseInflux == ("host" :> "localhost") @@ ("retention_policy" :> Str("one_week"))

BaseCBase == ("api_host" :> "api.example") @@ ("system" :> BaseSystem)

BaseDoc == ("influxdb" :> BaseInflux) @@ ("cbase" :> BaseCBase)

WithSystem(sys) == Put(BaseDoc, "cbase", Put(BaseCBase, "system", sys))

WithInflux(inf) == Put(BaseDoc, "influxdb", inf)

\* The base document and its variants that differ from it in one place.
ConfigDocs ==
  {BaseDoc}
    \cup {WithSystem(Put(BaseSystem, "latitude", v)) : v \in {-91, -90, 90, 91, 95}}
    \cup {WithSystem(Put(BaseSystem, "longitude", v)) :
            v \in {-181, -180, -91, -90, 90, 91, 120, 180, 181}}
    \cup {WithSystem(Put(BaseSystem, "slope", v)) : v \in {-1, 91}}
    \cup {WithSystem(Put(BaseSystem, "azimuth", v)) : v \in {-1, 360}}
    \cup {WithSystem(Put(BaseSystem, "tracking", 4))}
    \cup {WithSystem(Put(BaseSystem, "panel_output", 1001))}
    \cup {WithSystem(Put(BaseSystem, "inverter_capacity", 100001))}
    \cup {WithSystem(Drop(BaseSystem, k)) : k \in {"latitude", "azimuth"}}
    \cup {WithInflux(Drop(BaseInflux, k)) : k \in {"host", "retention_policy"}}
    \cup {WithInflux(Put(BaseInflux, "retention_policy", None))}
    \cup {WithInflux(Put(Put(BaseInflux, "port", 9999), "database", "pv"))}
    \cup {Drop(BaseDoc, k) : k \in {"influxdb", "cbase"}}
    \cup {Put(BaseDoc, "cbase", Drop(BaseCBase, k)) : k \in {"api_host", "system"}}

\* What open() finds at a path: no file, or a file with this content.
NoFile == [t |-> "nofile"]

File(content) == [t |-> "file", content |-> content]

ConfigFiles == {NoFile} \cup {File(d) : d \in ConfigDocs}

HEADER == [i \in 1..Len(Fields) |-> Alias(Fields[i])]

Time1 == <<"2", "0", "2", "4", "-", "0", "6", "-", "0", "1", "T", "1", "2", ":", "0", "0">>

Time2 == <<"2", "0", "2", "4", "-", "0", "6", "-", "0", "1", " ", "1", "1", ":", "0", "0", ":", "3", "0">>

BadTime == <<"2", "0", "2", "4", "-", "1", "3", "-", "0", "1", "T", "1", "2", ":", "0", "0">>

NA == <<"N", "A">>

Num32 == <<"3", ".", "2">>

Num15 == <<"-", "1", ".", "5", "0">>

Num7 == <<"7">>

NotNum == <<"a", "b", "c">>

\* A data line: the timestamp, the nineteen required cells, pv_T and pv_eta.
Line(time, pv_T, pv_eta) ==
  <<time, Num15>> \o [i \in 1..(Len(Fields) - 4) |-> Num7] \o <<pv_T, pv_eta>>

GoodLines == {Line(Time1, NA, Num32), Line(Time2, Num15, NA)}

BadLines ==
  { Line(BadTime, NA, Num32),
    [Line(Time1, NA, Num32) EXCEPT ![2] = NotNum],
    [Line(Time1, NA, Num32) EXCEPT ![20] = NA],
    Line(Time1, NotNum, Num32) }

\* A line that ends before the pv_eta cell, and one with a cell too many.
ShortLine == SubSeq(Line(Time1, Num32, Num32), 1, Len(Fields) - 1)

LongLine == Line(Time1, NA, Num32) \o <<Num15>>

Lines == GoodLines \cup BadLines \cup {<<>>}

SeqsUpTo(S, n) == UNION {[1..k -> S] : k \in 0..n}

\* The CSV texts: the empty text, the full header followed by up to MaxRows
\* lines, a text whose header lacks the pv_T column, texts with a line of one
\* cell fewer or more than the header, and a text that starts with a blank
\* line.
CsvTexts ==
  {<<>>}
    \cup {<<HEADER>> \o body : body \in SeqsUpTo(Lines, MaxRows)}
    \cup {<<SubSeq(HEADER, 1, 20) \o <<"pv_eta">>, SubSeq(Line(Time1, NA, Num32), 1, 20) \o <<Num32>>>>}
    \cup {<<HEADER, ShortLine>>, <<HEADER, Line(Time2, Num15, NA), LongLine>>}
    \cup {<<<<>>, HEADER, Line(Time1, NA, Num32)>>}

CsvFiles == {NoFile} \cup {File(c) : c \in CsvTexts}

HttpStatuses == {200, 500}

(***************************************************************************)
(* The state of one invocation                                             *)
(***************************************************************************)
VARIABLES
  pc,                 \* the statement main() is at; "done" and "failed" are the exits
  args,               \* AppArgs
  opened,             \* the paths open() was called on, in order
  config,             \* run: what yaml.safe_load returned
  app_config,         \* run: AppConfig(**config)
  influx,             \* run: the InfluxDBClient constructed
  session,            \* collect_data: the aiohttp session
  gets,               \* the GET requests issued, in order
  response,           \* collect_data: the response of the GET
  csv_text,           \* the argument of csv_to_influxdb_points
  reader,             \* parse_csv: the index of the line the DictReader reads next
  weather_data_list,  \* parse_csv: the records built so far
  points,             \* what csv_to_influxdb_points returned: None until it returns
  log,                \* the dry-run payloads logged, in order
  stdout,             \* what main() printed, in order
  writes,             \* the influx.write_points calls, in order
  error               \* the exception main() ended with, and the statement that raised it

vars == <<pc, args, opened, config, app_config, influx, session, gets, response,
          csv_text, reader, weather_data_list, points, log, stdout, writes, error>>

\* parse_args(): the command line, validated into AppArgs.
parse_args ==
  {[config_file |-> "config.yaml", csv_file |-> c, dry_run |-> d] :
     c \in {None, Str(""), Str("data.csv")}, d \in BOOLEAN}

Init ==
  /\ args \in parse_args
  /\ pc = "main"
  /\ opened = <<>>
  /\ config = None
  /\ app_config = None
  /\ influx = None
  /\ session = "none"
  /\ gets = <<>>
  /\ response = None
  /\ csv_text = <<>>
  /\ reader = 1
  /\ weather_data_list = <<>>
  /\ points = None
  /\ log = <<>>
  /\ stdout = <<>>
  /\ writes = <<>>
  /\ error = None

\* An uncaught exception: it unwinds every frame and ends the process.
Raise(what) ==
  /\ pc' = "failed"
  /\ error' = [t |-> "raised", at |-> pc, what |-> what]

(***************************************************************************)
(* main(), file mode: open the CSV file and read it                        *)
(***************************************************************************)
MainCsvFile ==
  /\ pc = "main"
  /\ Truthy(args.csv_file)
  /\ opened' = Append(opened, args.csv_file.s)
  /\ \E f \in CsvFiles :
       IF f = NoFile
       THEN Raise("FileNotFoundError") /\ UNCHANGED <<csv_text, reader>>
       ELSE /\ csv_text' = f.content
            /\ reader' = 2
            /\ pc' = "parse_csv"
            /\ error' = error
  /\ UNCHANGED <<args, config, app_config, influx, session, gets, response,
                 weather_data_list, points, log, stdout, writes>>

\* main(), normal path: asyncio.run(run(app_args)).
MainRun ==
  /\ pc = "main"
  /\ ~Truthy(args.csv_file)
  /\ pc' = "run"
  /\ UNCHANGED <<args, opened, config, app_config, influx, session, gets, response,
                 csv_text, reader, weather_data_list, points, log, stdout, writes, error>>

\* run(): read the configuration file and validate it.
RunLoadConfig ==
  /\ pc = "run"
  /\ opened' = Append(opened, args.config_file)
  /\ \E f \in ConfigFiles :
       IF f = NoFile
       THEN Raise("FileNotFoundError") /\ UNCHANGED <<config, app_config>>
       ELSE /\ config' = f.content
            /\ IF AppConfigValid(f.content)
               THEN /\ app_config' = AppConfig(f.content)
                    /\ pc' = "connect"
                    /\ error' = error
               ELSE Raise("ValidationError") /\ UNCHANGED app_config
  /\ UNCHANGED <<args, influx, session, gets, response, csv_text, reader,
                 weather_data_list, points, log, stdout, writes>>

\* run(): construct the InfluxDB client (no request is sent by the constructor).
RunConnect ==
  /\ pc = "connect"
  /\ influx' = [host     |-> app_config.influxdb.host,
                port     |-> app_config.influxdb.port,
                database |-> app_config.influxdb.database]
  /\ pc' = "collect"
  /\ UNCHANGED <<args, opened, config, app_config, session, gets, response, csv_text,
                 reader, weather_data_list, points, log, stdout, writes, error>>

\* collect_data(): open the HTTP session.
CollectSession ==
  /\ pc = "collect"
  /\ session' = "open"
  /\ pc' = "get"
  /\ UNCHANGED <<args, opened, config, app_config, influx, gets, response, csv_text,
                 reader, weather_data_list, points, log, stdout, writes, error>>

\* collect_data(): await client.get(...).  The request fails, or a response
\* of any status arrives; the status is not looked at.
CollectGet ==
  /\ pc = "get"
  /\ gets' = Append(gets, [url    |-> ApiUrl(app_config.cbase.api_host),
                           params |-> RequestParams(app_config.cbase.system)])
  /\ \/ Raise("ClientError") /\ UNCHANGED response
     \/ \E st \in HttpStatuses, body \in CsvTexts :
          /\ response' = [status |-> st, body |-> body]
          /\ pc' = "text"
          /\ error' = error
  /\ UNCHANGED <<args, opened, config, app_config, influx, session, csv_text, reader,
                 weather_data_list, points, log, stdout, writes>>

\* collect_data(): await response.text(), handed to csv_to_influxdb_points.
CollectText ==
  /\ pc = "text"
  /\ csv_text' = response.body
  /\ reader' = 2
  /\ pc' = "parse_csv"
  /\ UNCHANGED <<args, opened, config, app_config, influx, session, gets, response,
                 weather_data_list, points, log, stdout, writes, error>>

(***************************************************************************)
(* csv_to_influxdb_points                                                  *)
(***************************************************************************)
\* ParseRow skipping a row that fails validation instead of raising.
ParseRowSkippingBadRows ==
  /\ pc = "parse_csv"
  /\ LET j == NextDataLine(csv_text, reader)
     IN  /\ j <= Len(csv_text)
         /\ LET data == CBaseResponseData(DictRow(Fieldnames(csv_text), csv_text[j]))
            IN  /\ weather_data_list' =
                     IF IsError(data) THEN weather_data_list
                     ELSE Append(weather_data_list, data.v)
                /\ reader' = j + 1
  /\ UNCHANGED <<pc, error, args, opened, config, app_config, influx, session, gets,
                 response, csv_text, points, log, stdout, writes>>

\* parse_csv(): one iteration of the list comprehension over the DictReader.
ParseRow ==
  /\ pc = "parse_csv"
  /\ LET j == NextDataLine(csv_text, reader)
     IN  /\ j <= Len(csv_text)
         /\ LET data == CBaseResponseData(DictRow(Fieldnames(csv_text), csv_text[j]))
            IN  IF IsError(data)
                THEN /\ Raise(data.what)
                     /\ weather_data_list' = <<>>
                     /\ reader' = reader
                ELSE /\ weather_data_list' = Append(weather_data_list, data.v)
                     /\ reader' = j + 1
                     /\ UNCHANGED <<pc, error>>
  /\ UNCHANGED <<args, opened, config, app_config, influx, session, gets, response,
                 csv_text, points, log, stdout, writes>>

\* The reader is exhausted: parse_csv returns its list and
\* csv_to_influxdb_points returns the points built from it.
CsvToPoints ==
  /\ pc = "parse_csv"
  /\ NextDataLine(csv_text, reader) > Len(csv_text)
  /\ points' = List(PointsOf(weather_data_list))
  /\ pc' = IF Truthy(args.csv_file) THEN "print" ELSE "emit"
  /\ UNCHANGED <<args, opened, config, app_config, influx, session, gets, response,
                 csv_text, reader, weather_data_list, log, stdout, writes, error>>

\* p.model_dump_json()
ModelDumpJson(p) == [json |-> p]

\* main(), file mode: print the points and return.
MainPrintPoints ==
  /\ pc = "print"
  /\ stdout' = Append(stdout, [i \in 1..Len(points.v) |-> ModelDumpJson(points.v[i])])
  /\ pc' = "done"
  /\ UNCHANGED <<args, opened, config, app_config, influx, session, gets, response,
                 csv_text, reader, weather_data_list, points, log, writes, error>>

\* json_body = [p.model_dump() for p in influxdb_points]
JsonBody(ps) == [i \in 1..Len(ps) |-> ps[i]]

\* collect_data(), dry run: log the payload.
CollectDryRun ==
  /\ pc = "emit"
  /\ args.dry_run
  /\ log' = Append(log, JsonBody(points.v))
  /\ pc' = "close"
  /\ UNCHANGED <<args, opened, config, app_config, influx, session, gets, response,
                 csv_text, reader, weather_data_list, points, stdout, writes, error>>

\* CollectWrite without the test of dry_run.
CollectWriteIgnoringDryRun ==
  /\ pc = "emit"
  /\ writes' = Append(writes, [points           |-> JsonBody(points.v),
                               retention_policy |-> app_config.influxdb.retention_policy])
  /\ \/ pc' = "close" /\ error' = error
     \/ Raise("InfluxDBClientError")
  /\ UNCHANGED <<args, opened, config, app_config, influx, session, gets, response,
                 csv_text, reader, weather_data_list, points, log, stdout>>

\* CollectWrite calling influx.write_points again after it raised.
CollectWriteRetrying ==
  /\ pc = "emit"
  /\ ~args.dry_run
  /\ writes' = Append(writes, [points           |-> JsonBody(points.v),
                               retention_policy |-> app_config.influxdb.retention_policy])
  /\ \/ pc' = "close" /\ error' = error
     \/ UNCHANGED <<pc, error>>
  /\ UNCHANGED <<args, opened, config, app_config, influx, session, gets, response,
                 csv_text, reader, weather_data_list, points, log, stdout>>

\* collect_data(), otherwise: one influx.write_points call, which returns or raises.
CollectWrite ==
  /\ pc = "emit"
  /\ ~args.dry_run
  /\ writes' = Append(writes, [points           |-> JsonBody(points.v),
                               retention_policy |-> app_config.influxdb.retention_policy])
  /\ \/ pc' = "close" /\ error' = error
     \/ Raise("InfluxDBClientError")
  /\ UNCHANGED <<args, opened, config, app_config, influx, session, gets, response,
                 csv_text, reader, weather_data_list, points, log, stdout>>

\* collect_data(): await client.close(); run() and main() return.
CollectClose ==
  /\ pc = "close"
  /\ session' = "closed"
  /\ pc' = "done"
  /\ UNCHANGED <<args, opened, config, app_config, influx, gets, response, csv_text,
                 reader, weather_data_list, points, log, stdout, writes, error>>

Next ==
  \/ MainCsvFile
  \/ MainRun
  \/ RunLoadConfig
  \/ RunConnect
  \/ CollectSession
  \/ CollectGet
  \/ CollectText
  \/ ParseRow
  \/ CsvToPoints
  \/ MainPrintPoints
  \/ CollectDryRun
  \/ CollectWrite
  \/ CollectClose

Spec == Init /\ [][Next]_vars

(***************************************************************************)
(* What the properties speak of                                            *)
(***************************************************************************)
IsBlank(line) == line = <<>>

IsData(line) == ~IsBlank(line)

\* The data rows of a CSV text: the lines after the header that hold cells.
DataRows(text) == IF text = <<>> THEN <<>> ELSE SelectSeq(Tail(text), IsData)

\* The column of field f in the header of a text that has one, and the cell
\* of a row there.
Column(text, f) == CHOOSE c \in 1..Len(text[1]) : text[1][c] = Alias(f)

Cell(text, row, f) == row[Column(text, f)]

IsNumeral(cell) == ~IsError(StrToFloat(cell))

RequiredNames == {Alias(f) : f \in Range(Fields) \ (NullableFields \cup {"Time_UTC"})}

\* The cell under the column called name is not what that field takes: the
\* timestamp is malformed, a required field is not a numeral, or a nullable
\* field is neither "NA" nor a numeral.
CellFails(name, cell) ==
  IF name = "Time.UTC" THEN IsError(StrToDatetime(cell))
  ELSE IF name \in NullableFields THEN cell # NA /\ ~IsNumeral(cell)
  ELSE IF name \in RequiredNames THEN ~IsNumeral(cell)
  ELSE FALSE

\* A row fails validation: a field has no column or no cell, or its cell fails.
RowFails(text, row) ==
  \/ \E f \in Range(Fields) : Alias(f) \notin Range(text[1])
  \/ Len(row) < Len(text[1])
  \/ \E c \in 1..Len(text[1]) : c <= Len(row) /\ CellFails(text[1][c], row[c])

HasBadRow(text) ==
  \E i \in 1..Len(DataRows(text)) :
    RowFails(text, DataRows(text)[i]) \/ Len(DataRows(text)[i]) > Len(text[1])

\* main() takes the normal run path.
NormalPath == ~Truthy(args.csv_file)

\* csv_to_influxdb_points has returned.
Returned == points # None

\* C1: the keys of a point's fields are exactly the non-timestamp attributes
\* of its record that are not None; a nullable field read from "NA" has no
\* key, one read from a numeral has its key with the parsed value, and
\* Time_UTC is never a key.
C1_FieldsOmitAbsent ==
  Returned =>
    \A i \in 1..Len(points.v) :
      LET r   == weather_data_list[i]
          p   == points.v[i]
          row == DataRows(csv_text)[i]
      IN  /\ DOMAIN p.fields = {f \in Range(Fields) \ {"Time_UTC"} : r[f] # None}
          /\ "Time_UTC" \notin DOMAIN p.fields
          /\ \A f \in DOMAIN p.fields : p.fields[f].t = "float"
          /\ \A f \in NullableFields :
               /\ Cell(csv_text, row, f) = NA => f \notin DOMAIN p.fields
               /\ IsNumeral(Cell(csv_text, row, f)) =>
                    /\ f \in DOMAIN p.fields
                    /\ p.fields[f] = StrToFloat(Cell(csv_text, row, f))

\* A point was built from a row with pv_T "NA" and pv_eta "3.2".
C1_Witness ==
  /\ Returned
  /\ \E i \in 1..Len(points.v) :
       /\ Cell(csv_text, DataRows(csv_text)[i], "pv_T") = NA
       /\ "pv_T" \notin DOMAIN points.v[i].fields
       /\ "pv_eta" \in DOMAIN points.v[i].fields
       /\ points.v[i].fields["pv_eta"] = [t |-> "float", num |-> 32, den |-> 10]

\* C2: a CSV text with N data rows (N >= 0, the empty text and the header
\* alone included) yields N records and N points, the i-th point built from
\* the i-th data row; while the rows are read the records are those of the
\* first rows, in order; parsing fails only on a text with a failing row, so
\* never on a text with no data row.
C2_OnePointPerRowInOrder ==
  LET rows == DataRows(csv_text)
  IN  /\ Len(weather_data_list) <= Len(rows)
      /\ \A i \in 1..Len(weather_data_list) :
           weather_data_list[i]["Time_UTC"] = StrToDatetime(Cell(csv_text, rows[i], "Time_UTC"))
      /\ Returned =>
           /\ Len(weather_data_list) = Len(rows)
           /\ Len(points.v) = Len(rows)
           /\ \A i \in 1..Len(points.v) :
                /\ points.v[i].time = StrToDatetime(Cell(csv_text, rows[i], "Time_UTC"))
                /\ points.v[i].measurement = "cbase"
                /\ points.v[i].tags = [system |-> "home"]
      /\ (pc = "failed" /\ error.at = "parse_csv") => (HasBadRow(csv_text) /\ Len(rows) > 0)
      /\ (pc \in {"print", "emit", "close", "done"}) => Returned

\* Two rows with different timestamps became two points.
C2_Witness ==
  /\ Returned
  /\ Len(points.v) = 2
  /\ points.v[1].time # points.v[2].time
  /\ Len(csv_text) = 3

\* No data row at all: the points are the empty sequence, and the run goes on.
C2_WitnessEmpty == Returned /\ csv_text = <<>> /\ points.v = <<>> /\ pc = "done"

\* C3: if any data row fails validation, whatever its position, no record
\* or point list is returned, influx.write_points is never called, nothing
\* is logged or printed, and the run does not end normally.
C3_AbortAllOnBadRow ==
  HasBadRow(csv_text) =>
    /\ ~Returned
    /\ writes = <<>>
    /\ log = <<>>
    /\ stdout = <<>>
    /\ pc \in {"parse_csv", "failed"}
    /\ pc = "failed" => (error.at = "parse_csv" /\ weather_data_list = <<>>)

\* The second of two data rows is the bad one, and the run has failed on it.
C3_Witness ==
  /\ pc = "failed"
  /\ error.at = "parse_csv"
  /\ Len(DataRows(csv_text)) = 2
  /\ ~RowFails(csv_text, DataRows(csv_text)[1])
  /\ RowFails(csv_text, DataRows(csv_text)[2])

\* A response of a success status.
IsSuccess(resp) == resp.status >= 200 /\ resp.status <= 299

\* C4: after a response of a non-success status, whatever its body, the
\* body is not turned into points, nothing is written or logged, and the
\* process does not exit zero.
C4_NonSuccessStatusAborts ==
  (response # None /\ ~IsSuccess(response)) =>
    /\ ~Returned
    /\ writes = <<>>
    /\ log = <<>>
    /\ pc # "done"

\* The system parameters of a configuration document that has them.
HasSystem(doc) == HasKey(doc, "cbase") /\ HasKey(doc["cbase"], "system")

System(doc) == doc["cbase"]["system"]

RequiredParams ==
  {"latitude", "longitude", "slope", "azimuth", "panel_output", "panel_quantity"}

\* A key the configuration must give is missing.
MissingRequiredKey(doc) ==
  \/ ~HasKey(doc, "influxdb")
  \/ ~HasKey(doc, "cbase")
  \/ HasKey(doc, "influxdb") /\ ~HasKey(doc["influxdb"], "host")
  \/ HasKey(doc, "cbase") /\ ~HasKey(doc["cbase"], "api_host")
  \/ HasKey(doc, "cbase") /\ ~HasKey(doc["cbase"], "system")
  \/ HasSystem(doc) /\ \E k \in RequiredParams : ~HasKey(System(doc), k)

Outside(doc, k, lo, hi) ==
  HasSystem(doc) /\ HasKey(System(doc), k) /\ (System(doc)[k] < lo \/ System(doc)[k] > hi)

\* A system parameter lies outside its range: the geographic ranges of
\* latitude and longitude, slope 0-90, azimuth 0-359, the four tracking
\* modes, and the bounds of the panel and inverter figures.
OutOfDeclaredRange(doc) ==
  \/ Outside(doc, "latitude", -90, 90)
  \/ Outside(doc, "longitude", -180, 180)
  \/ Outside(doc, "slope", 0, 90)
  \/ Outside(doc, "azimuth", 0, 359)
  \/ Outside(doc, "tracking", 0, 3)
  \/ Outside(doc, "panel_output", 0, 1000)
  \/ Outside(doc, "panel_quantity", 0, 1000)
  \/ Outside(doc, "inverter_capacity", 0, 100000)

\* C5: a configuration that misses a required key or holds a system
\* parameter outside its range makes run() fail in the configuration load:
\* no client is constructed, no session opened, no GET issued, nothing
\* written; and none of these ever happens without a loaded configuration.
C5_BadConfigFailsBeforeNetwork ==
  /\ (config # None /\ (MissingRequiredKey(config) \/ OutOfDeclaredRange(config))) =>
       /\ pc = "failed"
       /\ error.at = "run"
       /\ app_config = None
       /\ influx = None
       /\ session = "none"
       /\ gets = <<>>
       /\ writes = <<>>
  /\ (influx # None \/ session # "none" \/ gets # <<>> \/ writes # <<>>) => app_config # None

\* The load of a configuration with latitude 95 has failed.
C5_Witness ==
  /\ pc = "failed"
  /\ config # None
  /\ HasSystem(config)
  /\ HasKey(System(config), "latitude")
  /\ System(config)["latitude"] = 95
  /\ gets = <<>>

\* The document with its latitude and longitude replaced.
WithLatLon(doc, lat, lon) ==
  Put(doc, "cbase",
      Put(doc["cbase"], "system", Put(Put(System(doc), "latitude", lat), "longitude", lon)))

\* C6: with the other fields valid, a configuration is accepted exactly
\* when its latitude is in [-90, 90] and its longitude in [-180, 180].
C6_LatLonGeographicRange ==
  (/\ config # None
   /\ HasSystem(config)
   /\ HasKey(System(config), "latitude")
   /\ HasKey(System(config), "longitude")
   /\ AppConfigValid(WithLatLon(config, 0, 0))) =>
    (app_config # None <=>
       /\ System(config)["latitude"] >= -90 /\ System(config)["latitude"] <= 90
       /\ System(config)["longitude"] >= -180 /\ System(config)["longitude"] <= 180)

\* C7: whenever --csv-file is supplied, the configuration file is not
\* opened, no InfluxDB client is constructed, no HTTP session is opened, no
\* request issued and nothing written, whatever --dry-run is; a run that ends
\* normally has printed the points once.
C7_FileModeExclusive ==
  args.csv_file # None =>
    /\ args.config_file \notin Range(opened)
    /\ config = None
    /\ influx = None
    /\ session = "none"
    /\ gets = <<>>
    /\ writes = <<>>
    /\ log = <<>>
    /\ pc = "done" => Len(stdout) = 1

\* C8: a dry run never calls influx.write_points; with a loaded
\* configuration and a success response whose rows are all valid it does
\* not fail, logs the payload exactly once (the points of the response's
\* rows, in order, as a non-dry run writes them), closes the session and
\* exits zero.
C8_DryRunLogsAndNeverWrites ==
  /\ args.dry_run => writes = <<>>
  /\ (/\ args.dry_run
      /\ NormalPath
      /\ response # None
      /\ IsSuccess(response)
      /\ ~HasBadRow(response.body)) =>
       /\ pc # "failed"
       /\ pc \notin {"close", "done"} => log = <<>>
       /\ pc \in {"close", "done"} =>
            /\ log = <<JsonBody(points.v)>>
            /\ Len(log[1]) = Len(DataRows(response.body))
            /\ \A i \in 1..Len(log[1]) :
                 log[1][i].time =
                   StrToDatetime(Cell(response.body, DataRows(response.body)[i], "Time_UTC"))
       /\ pc = "done" => session = "closed"

\* A dry run has ended normally with two points logged and nothing written.
C8_Witness ==
  /\ pc = "done"
  /\ args.dry_run
  /\ session = "closed"
  /\ writes = <<>>
  /\ Len(log) = 1
  /\ Len(log[1]) = 2

\* C9: a configuration whose influxdb section gives only host loads, with
\* port 8086, database "cbase" and no retention policy; and a write carries
\* the configured retention policy unchanged.
C9_RetentionPolicyOptional ==
  /\ (/\ config # None
      /\ HasKey(config, "influxdb")
      /\ DOMAIN config["influxdb"] = {"host"}
      /\ HasKey(config, "cbase")
      /\ CBaseConfigValid(config["cbase"])) =>
       /\ app_config # None
       /\ app_config.influxdb.port = 8086
       /\ app_config.influxdb.database = "cbase"
       /\ app_config.influxdb.retention_policy = None
  /\ \A i \in 1..Len(writes) :
       writes[i].retention_policy = config["influxdb"]["retention_policy"]

\* C10: at most one GET and at most one write, none repeated after a
\* failure; a write comes after the GET, after the whole body was read and
\* every row parsed and transformed, and carries all the points in the order
\* of the rows; a non-dry run that ends normally made one GET and one write.
C10_OneGetThenOneWrite ==
  /\ Len(gets) <= 1
  /\ Len(writes) <= 1
  /\ writes # <<>> =>
       /\ ~args.dry_run
       /\ Len(gets) = 1
       /\ response # None
       /\ csv_text = response.body
       /\ NextDataLine(csv_text, reader) > Len(csv_text)
       /\ Returned
       /\ writes[1].points = JsonBody(points.v)
       /\ Len(writes[1].points) = Len(DataRows(response.body))
       /\ \A i \in 1..Len(writes[1].points) :
            writes[1].points[i].time =
              StrToDatetime(Cell(response.body, DataRows(response.body)[i], "Time_UTC"))
  /\ (pc = "done" /\ NormalPath /\ ~args.dry_run) => (Len(gets) = 1 /\ Len(writes) = 1)
  /\ pc = "failed" => ~ENABLED Next

\* A non-dry run has ended normally: one GET, then one write of two points.
C10_Witness ==
  /\ pc = "done"
  /\ Len(gets) = 1
  /\ Len(writes) = 1
  /\ Len(writes[1].points) = 2
  /\ writes[1].points[1].time # writes[1].points[2].time

====
